---- MODULE Spec2Model ----
(***************************************************************************)
(* Model of DotNet-Samples/api-gateway/generate-token.py: generate_token   *)
(* builds a claim set from its arguments, the module constants and three   *)
(* reads of the wall clock, and signs it with jwt.encode (HS256).          *)
(*                                                                         *)
(* Several threads may be inside generate_token at once; each one's        *)
(* position is pc[t].  The wall clock is the environment: it ticks, it may *)
(* leap forward (the process was suspended, the clock was set) and it may  *)
(* be stepped back (datetime.utcnow() is not monotonic).                   *)
(***************************************************************************)
EXTENDS Integers, Sequences, FiniteSets, TLC

VARIABLES clock, nsteps, globals, pc, args, frame

vars == <<clock, nsteps, globals, pc, args, frame>>

----------------------------------------------------------------------------
(* Bounds of the model.                                                    *)

\* how many times the wall clock changes in one behaviour
MaxClockSteps == 2

\* the threads that call generate_token
Threads == {"t1", "t2"}

----------------------------------------------------------------------------
(* Instants: a datetime is a count of whole seconds and a microsecond      *)
(* field, as datetime.datetime keeps them.                                 *)

UsecPerSec == 1000000

SecondsPerHour == 3600

Instant(s, us) == [s |-> s, us |-> us]

Before(a, b) == a.s < b.s \/ (a.s = b.s /\ a.us < b.us)

AtOrBefore(a, b) == a = b \/ Before(a, b)

\* datetime + timedelta(hours=h)
PlusHours(t, h) == [t EXCEPT !.s = @ + h * SecondsPerHour]

\* datetime - timedelta(hours=h)
MinusHours(t, h) == [t EXCEPT !.s = @ - h * SecondsPerHour]

NextUsec(t) ==
    IF t.us = UsecPerSec - 1 THEN Instant(t.s + 1, 0) ELSE Instant(t.s, t.us + 1)

PrevUsec(t) ==
    IF t.us = 0 THEN Instant(t.s - 1, UsecPerSec - 1) ELSE Instant(t.s, t.us - 1)

\* the instant the wall clock shows when the program starts: the last
\* microsecond of a second, so that a tick carries into the seconds
StartInstants == {Instant(SecondsPerHour, UsecPerSec - 1)}

\* datetime.isoformat(): "YYYY-MM-DDTHH:MM:SS" when the microsecond field is 0,
\* "YYYY-MM-DDTHH:MM:SS.ffffff" otherwise.  The text is kept as its fields.
isoformat(t) == IF t.us = 0 THEN <<t.s>> ELSE <<t.s, t.us>>

\* the instant a text made by isoformat names
fromisoformat(txt) ==
    IF Len(txt) = 1 THEN Instant(txt[1], 0) ELSE Instant(txt[1], txt[2])

----------------------------------------------------------------------------
(* Module constants (lines 11-14) and parameters.                          *)

\* a key of 16 bytes
SECRET_KEY_weak == "sixteen-byte-key"

SECRET_KEY == "your-secret-key-min-32-characters-long-for-production"

ISSUER == "ApiGateway"

AUDIENCE == "ApiGatewayClients"

\* timedelta(hours=1)
LifetimeHours == 1

\* the key length the key's own text asks for
MinKeyBytes == 32

\* Python's None and a value that is present
None == [none |-> TRUE]

Some(v) == [none |-> FALSE, val |-> v]

\* what callers pass: the defaults, an empty roles list, a roles list holding
\* an empty string, and an empty username
CallInputs ==
    {[username |-> "testuser", roles |-> None],
     [username |-> "testuser", roles |-> Some(<<>>)],
     [username |-> "testuser", roles |-> Some(<<"User", "">>)],
     [username |-> "", roles |-> Some(<<"Admin">>)]}

\* values of locals that are not bound yet
NoInstant == Instant(0, 0)

NoJti == [prefix |-> "", stamp |-> <<>>]

NoClaims ==
    [sub |-> "", name |-> "", role |-> <<>>, jti |-> NoJti, iss |-> "",
     aud |-> "", exp |-> NoInstant, iat |-> NoInstant]

NoToken ==
    [header |-> [alg |-> "", typ |-> ""],
     payload |-> [sub |-> "", name |-> "", role |-> <<>>, jti |-> NoJti,
                  iss |-> "", aud |-> "", exp |-> 0, iat |-> 0],
     signature |-> [key |-> "", alg |-> "", header |-> [alg |-> "", typ |-> ""],
                    payload |-> [sub |-> "", name |-> "", role |-> <<>>,
                                 jti |-> NoJti, iss |-> "", aud |-> "",
                                 exp |-> 0, iat |-> 0]]]

NoArgs == [username |-> "", roles |-> None]

NoFrame ==
    [roles |-> <<>>, expiration |-> NoInstant, jti |-> NoJti,
     claims |-> NoClaims, token |-> NoToken]

----------------------------------------------------------------------------
(* jwt.encode(claims, key, algorithm="HS256")                              *)

\* timegm(dt.utctimetuple()): whole seconds, the microsecond field is dropped
timegm(t) == t.s

\* the payload segment: exp and iat, given as datetimes, become NumericDates
Payload(claims) == [claims EXCEPT !.exp = timegm(@), !.iat = timegm(@)]

Header(alg) == [alg |-> alg, typ |-> "JWT"]

\* HMAC over header "." payload: equal exactly for equal key and equal input
Sign(key, alg, header, payload) ==
    [key |-> key, alg |-> alg, header |-> header, payload |-> payload]

encode(claims, key, alg) ==
    [header |-> Header(alg),
     payload |-> Payload(claims),
     signature |-> Sign(key, alg, Header(alg), Payload(claims))]

----------------------------------------------------------------------------
(* State.                                                                  *)

Init ==
    /\ clock \in StartInstants
    /\ nsteps = 0
    /\ globals = [SECRET_KEY |-> SECRET_KEY, ISSUER |-> ISSUER, AUDIENCE |-> AUDIENCE]
    /\ pc = [t \in Threads |-> "ready"]
    /\ args = [t \in Threads |-> NoArgs]
    /\ frame = [t \in Threads |-> NoFrame]

\* the wall clock: a microsecond passes
ClockTick ==
    /\ nsteps < MaxClockSteps
    /\ clock' = NextUsec(clock)
    /\ nsteps' = nsteps + 1
    /\ UNCHANGED <<globals, pc, args, frame>>

\* the wall clock leaps a whole lifetime ahead
ClockLeap ==
    /\ nsteps < MaxClockSteps
    /\ clock' = PlusHours(clock, LifetimeHours)
    /\ nsteps' = nsteps + 1
    /\ UNCHANGED <<globals, pc, args, frame>>

\* the wall clock is set back a microsecond
ClockStepBack ==
    /\ nsteps < MaxClockSteps
    /\ clock' = PrevUsec(clock)
    /\ nsteps' = nsteps + 1
    /\ UNCHANGED <<globals, pc, args, frame>>

\* line 16: a caller enters generate_token(username, roles)
Call(t) ==
    /\ pc[t] \in {"ready", "returned"}
    /\ \E a \in CallInputs : args' = [args EXCEPT ![t] = a]
    /\ frame' = [frame EXCEPT ![t] = NoFrame]
    /\ pc' = [pc EXCEPT ![t] = "default"]
    /\ UNCHANGED <<clock, nsteps, globals>>

\* the default written into the caller's argument instead of the local name
DefaultRoles_writes_argument(t) ==
    /\ pc[t] = "default"
    /\ frame' = [frame EXCEPT ![t].roles =
                    IF args[t].roles = None THEN <<"Admin">> ELSE args[t].roles.val]
    /\ args' = [args EXCEPT ![t].roles =
                    IF @ = None THEN Some(<<"Admin">>) ELSE @]
    /\ pc' = [pc EXCEPT ![t] = "expiration"]
    /\ UNCHANGED <<clock, nsteps, globals>>

\* lines 19-20: if roles is None: roles = ["Admin"]
DefaultRoles(t) ==
    /\ pc[t] = "default"
    /\ frame' = [frame EXCEPT ![t].roles =
                    IF args[t].roles = None THEN <<"Admin">> ELSE args[t].roles.val]
    /\ pc' = [pc EXCEPT ![t] = "expiration"]
    /\ UNCHANGED <<clock, nsteps, globals, args>>

\* line 23: expiration = utcnow() + timedelta(hours=1)
Expiration(t) ==
    /\ pc[t] = "expiration"
    /\ frame' = [frame EXCEPT ![t].expiration = PlusHours(clock, LifetimeHours)]
    /\ pc' = [pc EXCEPT ![t] = "jti"]
    /\ UNCHANGED <<clock, nsteps, globals, args>>

\* the identifier stamped with the expiration instead of a fresh clock read
Jti_from_expiration(t) ==
    /\ pc[t] = "jti"
    /\ frame' = [frame EXCEPT ![t].jti =
                    [prefix |-> "test-", stamp |-> isoformat(frame[t].expiration)]]
    /\ pc' = [pc EXCEPT ![t] = "iat"]
    /\ UNCHANGED <<clock, nsteps, globals, args>>

\* line 30: "jti": "test-" + utcnow().isoformat()
Jti(t) ==
    /\ pc[t] = "jti"
    /\ frame' = [frame EXCEPT ![t].jti = [prefix |-> "test-", stamp |-> isoformat(clock)]]
    /\ pc' = [pc EXCEPT ![t] = "iat"]
    /\ UNCHANGED <<clock, nsteps, globals, args>>

\* lines 26-35: the rest of the dict display, ending with "iat": utcnow()
Claims(t) ==
    /\ pc[t] = "iat"
    /\ frame' = [frame EXCEPT ![t].claims =
                    [sub |-> args[t].username,
                     name |-> args[t].username,
                     role |-> frame[t].roles,
                     jti |-> frame[t].jti,
                     iss |-> globals.ISSUER,
                     aud |-> globals.AUDIENCE,
                     exp |-> frame[t].expiration,
                     iat |-> clock]]
    /\ pc' = [pc EXCEPT ![t] = "encode"]
    /\ UNCHANGED <<clock, nsteps, globals, args>>

\* lines 38-40: token = jwt.encode(claims, SECRET_KEY, algorithm="HS256"); return
Encode(t) ==
    /\ pc[t] = "encode"
    /\ frame' = [frame EXCEPT ![t].token =
                    encode(frame[t].claims, globals.SECRET_KEY, "HS256")]
    /\ pc' = [pc EXCEPT ![t] = "returned"]
    /\ UNCHANGED <<clock, nsteps, globals, args>>

Next ==
    \/ ClockTick
    \/ ClockLeap
    \/ ClockStepBack
    \/ \E t \in Threads : Call(t)
    \/ \E t \in Threads : DefaultRoles(t)
    \/ \E t \in Threads : Expiration(t)
    \/ \E t \in Threads : Jti(t)
    \/ \E t \in Threads : Claims(t)
    \/ \E t \in Threads : Encode(t)

Spec == Init /\ [][Next]_vars

\* the environment of a host whose wall clock is never set back
NextMonotone ==
    \/ ClockTick
    \/ ClockLeap
    \/ \E t \in Threads : Call(t)
    \/ \E t \in Threads : DefaultRoles(t)
    \/ \E t \in Threads : Expiration(t)
    \/ \E t \in Threads : Jti(t)
    \/ \E t \in Threads : Claims(t)
    \/ \E t \in Threads : Encode(t)

SpecMonotone == Init /\ [][NextMonotone]_vars

----------------------------------------------------------------------------
(* The verifier of the token codec: sequential checks, the first failure   *)
(* is the answer.                                                          *)

Ok(c) == [ok |-> TRUE, err |-> "", claims |-> c]

Err(e) == [ok |-> FALSE, err |-> e, claims |-> NoClaims]

\* the claims a payload decodes to: a NumericDate names a whole second
Decode(payload) == [payload EXCEPT !.exp = Instant(@, 0), !.iat = Instant(@, 0)]

verify(token, key, expectedIssuer, expectedAudience, now) ==
    LET c == Decode(token.payload) IN
    IF token.header = NoToken.header \/ token.signature = NoToken.signature
        THEN Err("Malformed")
    ELSE IF token.signature # Sign(key, token.header.alg, token.header, token.payload)
        THEN Err("BadSignature")
    ELSE IF token.payload.jti = NoJti
        THEN Err("Malformed")
    ELSE IF Before(c.exp, now)
        THEN Err("Expired")
    ELSE IF Before(now, c.iat)
        THEN Err("NotYetValid")
    ELSE IF c.iss # expectedIssuer
        THEN Err("IssuerMismatch")
    ELSE IF c.aud # expectedAudience
        THEN Err("AudienceMismatch")
    ELSE Ok(c)

----------------------------------------------------------------------------
(* The claims.                                                             *)

\* thread t's call has returned its token
Returned(t) == pc[t] = "returned"

\* the claim set of t's call
ClaimsOf(t) == frame[t].claims

\* the token t's call returned
TokenOf(t) == frame[t].token

\* C1: in every issued claim set exp - iat is exactly the lifetime of 1 hour,
\* whatever the clock does between the call's reads.
C1_ExactLifetime ==
    \A t \in Threads :
        Returned(t) => ClaimsOf(t).exp = PlusHours(ClaimsOf(t).iat, LifetimeHours)

\* C2: no two distinct calls issue claims with the same jti.
C2_UniqueJti ==
    \A t, u \in Threads :
        (t # u /\ Returned(t) /\ Returned(u)) => ClaimsOf(t).jti # ClaimsOf(u).jti

\* C3: roles omitted or empty gives role = ["Admin"], so role is never empty;
\* a non-empty roles argument is carried unchanged and in order.
C3_RolesDefault ==
    \A t \in Threads :
        Returned(t) =>
            /\ (args[t].roles = None \/ args[t].roles = Some(<<>>))
                   => ClaimsOf(t).role = <<"Admin">>
            /\ ClaimsOf(t).role # <<>>
            /\ (args[t].roles # None /\ args[t].roles # Some(<<>>))
                   => ClaimsOf(t).role = args[t].roles.val

\* the inputs the claims builder is to reject
InvalidInput(a) ==
    \/ a.username = ""
    \/ (a.roles # None /\ \E i \in DOMAIN a.roles.val : a.roles.val[i] = "")

\* C4: a call with an empty username, or with an empty string among its
\* roles, fails with InvalidInput and produces no token.
C4_InvalidInputRejected ==
    \A t \in Threads : (pc[t] # "ready" /\ InvalidInput(args[t])) => ~Returned(t)

\* C5: two calls with the same username and roles produce identical claims
\* and an identical token, whatever the system clock does.
C5_Deterministic ==
    \A t, u \in Threads :
        (Returned(t) /\ Returned(u) /\ args[t] = args[u]) =>
            /\ ClaimsOf(t) = ClaimsOf(u)
            /\ TokenOf(t) = TokenOf(u)

\* the instants at which a token's verification is probed: the ends of its
\* validity window and their neighbours
Probes(c) == {c.iat, c.exp, NextUsec(c.iat), PrevUsec(c.exp)}

\* C6: every issued token verifies, with the key, issuer and audience it was
\* issued with, to exactly the issued claims at every instant from iat to exp,
\* exp included.
C6_RoundTrip ==
    \A t \in Threads :
        Returned(t) =>
            \A now \in Probes(ClaimsOf(t)) :
                (AtOrBefore(ClaimsOf(t).iat, now) /\ AtOrBefore(now, ClaimsOf(t).exp))
                    => verify(TokenOf(t), globals.SECRET_KEY, ClaimsOf(t).iss,
                              ClaimsOf(t).aud, now) = Ok(ClaimsOf(t))

OwnClaims(t) ==
    /\ ClaimsOf(t).sub = args[t].username
    /\ ClaimsOf(t).name = args[t].username
    /\ ClaimsOf(t).role = (IF args[t].roles = None THEN <<"Admin">> ELSE args[t].roles.val)
    /\ ClaimsOf(t).iss = ISSUER
    /\ ClaimsOf(t).aud = AUDIENCE
    /\ ClaimsOf(t).exp = frame[t].expiration
    /\ ClaimsOf(t).jti = frame[t].jti

\* a step of t stores what t itself read from the clock at that step
OwnClockReads(t) ==
    /\ (pc[t] = "expiration" /\ pc'[t] = "jti")
           => frame'[t].expiration = PlusHours(clock, LifetimeHours)
    /\ (pc[t] = "jti" /\ pc'[t] = "iat")
           => frame'[t].jti = [prefix |-> "test-", stamp |-> isoformat(clock)]
    /\ (pc[t] = "iat" /\ pc'[t] = "encode")
           => frame'[t].claims.iat = clock

\* no step writes the module constants; no step of a call in progress writes
\* the caller's arguments; a step of one thread leaves the others' frames alone
NoSharedWrite ==
    /\ globals' = globals
    /\ \A t \in Threads : ~(pc[t] \in {"ready", "returned"}) => args'[t] = args[t]
    /\ \A t, u \in Threads : (t # u /\ pc'[t] # pc[t]) => frame'[u] = frame[u]

\* C8: concurrent calls write no shared state (SECRET_KEY, ISSUER, AUDIENCE and
\* the caller's roles are unchanged after any interleaving) and each call's
\* claims consist only of its own arguments, the constants and its own clock
\* reads.
C8_NoSharedState ==
    /\ [](\A t \in Threads : pc[t] \in {"encode", "returned"} => OwnClaims(t))
    /\ [][NoSharedWrite /\ \A t \in Threads : OwnClockReads(t)]_vars

C8_Witness ==
    \E t, u \in Threads :
        /\ t # u
        /\ Returned(t)
        /\ pc[u] = "encode"
        /\ args[t] # args[u]
        /\ ClaimsOf(t).iat # ClaimsOf(u).iat

\* C9: in every issued claim set exp is strictly after iat, however far the
\* clock advances between the call's reads.
C9_ExpAfterIat ==
    \A t \in Threads : Returned(t) => Before(ClaimsOf(t).iat, ClaimsOf(t).exp)

\* C10: the clock is read in the order exp, jti, iat, so under a clock that
\* never goes back exp - 1 hour <= the instant in jti <= iat, and the validity
\* window exp - iat is at most 1 hour.
C10_ReadOrder ==
    \A t \in Threads :
        Returned(t) =>
            LET c == ClaimsOf(t)
                j == fromisoformat(c.jti.stamp)
            IN  /\ AtOrBefore(MinusHours(c.exp, LifetimeHours), j)
                /\ AtOrBefore(j, c.iat)
                /\ AtOrBefore(c.exp, PlusHours(c.iat, LifetimeHours))

C10_Witness ==
    \E t \in Threads :
        /\ Returned(t)
        /\ Before(MinusHours(ClaimsOf(t).exp, LifetimeHours),
                  fromisoformat(ClaimsOf(t).jti.stamp))
        /\ Before(fromisoformat(ClaimsOf(t).jti.stamp), ClaimsOf(t).iat)

====
